---- MODULE Spec2Model ----
\* Model of scripts/score_fmps.py: the text chunker, the response parser, the
\* row projector and the sequential batch loop of main.
\*
\* Text is a sequence of one-character strings (chunk_text, district names,
\* file names).  A model reply is a sequence of lexical tokens: punctuation,
\* whitespace, the code-fence markers, quoted string literals, number
\* literals and bare prose words.
EXTENDS Integers, Sequences, FiniteSets, TLC

\* ------------------------------------------------------------------ bounds
MaxTextLen == 6
MaxTarget == 1
MaxProse == 2
ObjDepth == 2
MaxDocs == 3
MaxNames == 2

\* ------------------------------------------------------- generic helpers
RECURSIVE SeqsUpTo(_, _)
SeqsUpTo(S, n) ==
    IF n = 0 THEN {<<>>}
    ELSE LET shorter == SeqsUpTo(S, n - 1)
         IN  shorter \cup {Append(q, x) : q \in {r \in shorter : Len(r) = n - 1}, x \in S}

Range(q) == {q[j] : j \in 1..Len(q)}

\* (SeqsUpTo, Range and Flatten are plain sequence arithmetic.)
RECURSIVE Flatten(_)
Flatten(qs) == IF qs = <<>> THEN <<>> ELSE Head(qs) \o Flatten(Tail(qs))

\* ------------------------------------------------------------ chunk_text
\* Characters str.split() treats as separators.
Whitespace == {" ", "\n"}

TextChars == {"a", " ", "\n"}

\* str.split() with no argument: maximal runs of non-whitespace characters.
RECURSIVE SplitFrom(_, _, _, _)
SplitFrom(s, j, cur, acc) ==
    IF j > Len(s)
    THEN IF cur = <<>> THEN acc ELSE Append(acc, cur)
    ELSE IF s[j] \in Whitespace
         THEN SplitFrom(s, j + 1, <<>>, IF cur = <<>> THEN acc ELSE Append(acc, cur))
         ELSE SplitFrom(s, j + 1, Append(cur, s[j]), acc)

split(s) == SplitFrom(s, 1, <<>>, <<>>)

\* " ".join(buf)
RECURSIVE join(_)
join(buf) ==
    IF buf = <<>> THEN <<>>
    ELSE IF Len(buf) = 1 THEN buf[1]
    ELSE buf[1] \o <<" ">> \o join(Tail(buf))

\* size += len(w) + 1
AddSizeTwoSep(size, w) == size + Len(w) + 2

AddSize(size, w) == size + Len(w) + 1

\* if buf: chunks.append(" ".join(buf))
FinalFlushDropped(chunks, buf) == chunks

FinalFlush(chunks, buf) == IF buf # <<>> THEN Append(chunks, join(buf)) ELSE chunks

\* the for loop over words
RECURSIVE ChunkLoop(_, _, _, _, _, _)
ChunkLoop(words, j, buf, size, chunks, chunk_size) ==
    IF j > Len(words)
    THEN FinalFlush(chunks, buf)
    ELSE LET buf2 == Append(buf, words[j])
             size2 == AddSize(size, words[j])
         IN  IF size2 >= chunk_size
             THEN ChunkLoop(words, j + 1, <<>>, 0, Append(chunks, join(buf2)), chunk_size)
             ELSE ChunkLoop(words, j + 1, buf2, size2, chunks, chunk_size)

chunk_text(s, target_tokens) ==
    LET words == split(s)
        chunk_size == target_tokens * 4
    IN  ChunkLoop(words, 1, <<>>, 0, <<>>, chunk_size)

\* ------------------------------------------------------------ JSON values
\* A decoded JSON value: [str |-> s], [num |-> n] or a dict
\* [keys |-> <<k1, ...>>, vals |-> <<v1, ...>>] kept in insertion order, as
\* Python dicts are.
EmptyDict == [keys |-> <<>>, vals |-> <<>>]

IsDict(v) == "keys" \in DOMAIN v

DictHas(d, k) == \E j \in 1..Len(d.keys) : d.keys[j] = k

DictGet(d, k) == d.vals[CHOOSE j \in 1..Len(d.keys) : d.keys[j] = k]

\* d[k] = v: an existing key keeps its position and takes the new value.
DictSet(d, k, v) ==
    IF DictHas(d, k)
    THEN [keys |-> d.keys,
          vals |-> [j \in 1..Len(d.vals) |-> IF d.keys[j] = k THEN v ELSE d.vals[j]]]
    ELSE [keys |-> Append(d.keys, k), vals |-> Append(d.vals, v)]

\* ------------------------------------------------------------ reply tokens
\* The opening marker (three backquotes followed by json) and the closing
\* marker (three backquotes) of a fenced code block, one token each.
FENCE_JSON == "<fence>json"

FENCE == "<fence>"

\* The seven categories of SYSTEM_PROMPT / USER_PROMPT_TEMPLATE, in order.
CATEGORIES ==
    << "Facility Inventory & Condition Assessment",
       "Enrollment & Capacity Planning",
       "Educational Alignment",
       "Outdoor Spaces & Greening",
       "Climate Risk & Mitigation",
       "Energy Efficiency & Resilience",
       "Financial Plan & Capital Strategy" >>

\* Tokens that stand for a quoted JSON string literal.
StringLits ==
    Range(CATEGORIES) \cup
    {"district", "scores", "score", "justification", "Oakville", "ok", "k", "Extra Category"}

\* Tokens that stand for a JSON number literal.
NumLits == {"0", "1", "2", "3", "4"}

NumVal(tok) ==
    CASE tok = "0" -> 0 [] tok = "1" -> 1 [] tok = "2" -> 2 [] tok = "3" -> 3 [] tok = "4" -> 4

\* ------------------------------------------------------------- json.loads
Fail == [ok |-> FALSE]

RECURSIVE SkipWs(_, _)
SkipWs(s, j) == IF j <= Len(s) /\ s[j] \in Whitespace THEN SkipWs(s, j + 1) ELSE j

RECURSIVE ParseValue(_, _)
RECURSIVE ParseMembers(_, _, _)

\* One JSON value starting exactly at position j; end is the position after it.
ParseValue(s, j) ==
    IF j > Len(s) THEN Fail
    ELSE IF s[j] \in StringLits THEN [ok |-> TRUE, end |-> j + 1, val |-> [str |-> s[j]]]
    ELSE IF s[j] \in NumLits THEN [ok |-> TRUE, end |-> j + 1, val |-> [num |-> NumVal(s[j])]]
    ELSE IF s[j] = "{"
         THEN LET k == SkipWs(s, j + 1)
              IN  IF k <= Len(s) /\ s[k] = "}"
                  THEN [ok |-> TRUE, end |-> k + 1, val |-> EmptyDict]
                  ELSE ParseMembers(s, k, EmptyDict)
    ELSE Fail

\* The members of an object from position j (a key is expected there) up to
\* and including the closing brace; a repeated key keeps the last value.
ParseMembers(s, j, d) ==
    IF j > Len(s) \/ s[j] \notin StringLits THEN Fail
    ELSE LET c == SkipWs(s, j + 1)
         IN  IF c > Len(s) \/ s[c] # ":" THEN Fail
             ELSE LET r == ParseValue(s, SkipWs(s, c + 1))
                  IN  IF ~r.ok THEN Fail
                      ELSE LET d2 == DictSet(d, s[j], r.val)
                               e == SkipWs(s, r.end)
                           IN  IF e > Len(s) THEN Fail
                               ELSE IF s[e] = "}" THEN [ok |-> TRUE, end |-> e + 1, val |-> d2]
                               ELSE IF s[e] = "," THEN ParseMembers(s, SkipWs(s, e + 1), d2)
                               ELSE Fail

\* json.loads(s): one value surrounded by optional whitespace, nothing else.
json_loads(s) ==
    LET r == ParseValue(s, SkipWs(s, 1))
    IN  IF ~r.ok THEN [ok |-> FALSE, err |-> "JSONDecodeError"]
        ELSE IF SkipWs(s, r.end) <= Len(s) THEN [ok |-> FALSE, err |-> "JSONDecodeError"]
        ELSE [ok |-> TRUE, val |-> r.val]

\* ---------------------------------------------------- parse_possible_json
\* str.strip()
RECURSIVE RStrip(_)
RStrip(s) == IF s # <<>> /\ s[Len(s)] \in Whitespace THEN RStrip(SubSeq(s, 1, Len(s) - 1)) ELSE s

strip(s) == LET j == SkipWs(s, 1) IN RStrip(SubSeq(s, j, Len(s)))

\* re.sub(r"^<fence>json\s*|\s*<fence>$", "", s, flags=re.S)
StripFences(s) ==
    LET a == IF s # <<>> /\ s[1] = FENCE_JSON
             THEN SubSeq(s, SkipWs(s, 2), Len(s)) ELSE s
        \* "$" also matches just before one final newline
        body == IF a # <<>> /\ a[Len(a)] = "\n" /\ Len(a) >= 2 /\ a[Len(a) - 1] = FENCE
                THEN SubSeq(a, 1, Len(a) - 1) ELSE a
        tailnl == IF body = a THEN <<>> ELSE <<"\n">>
    IN  IF body # <<>> /\ body[Len(body)] = FENCE
        THEN RStrip(SubSeq(body, 1, Len(body) - 1)) \o tailnl
        ELSE a

\* TRUE iff s[q] = "}" and only whitespace follows it.
ClosesAtEnd(s, q) == s[q] = "}" /\ SkipWs(s, q + 1) > Len(s)

\* re.search(r"\{.*\}\s*\Z", s, flags=re.S): the scan takes the leftmost "{"
\* that some later "}" followed only by whitespace can close, and the greedy
\* match runs from there to the end of s.
BraceStarts(s) ==
    {p \in 1..Len(s) : s[p] = "{" /\ \E q \in (p + 1)..Len(s) : ClosesAtEnd(s, q)}

SearchFromLastBrace(s) ==
    IF BraceStarts(s) = {} THEN [found |-> FALSE]
    ELSE [found |-> TRUE,
          group |-> SubSeq(s, CHOOSE p \in BraceStarts(s) : \A o \in BraceStarts(s) : o <= p, Len(s))]

SearchBrace(s) ==
    IF BraceStarts(s) = {} THEN [found |-> FALSE]
    ELSE [found |-> TRUE,
          group |-> SubSeq(s, CHOOSE p \in BraceStarts(s) : \A o \in BraceStarts(s) : p <= o, Len(s))]

parse_possible_json(raw) ==
    LET s1 == strip(raw)
    IN  IF s1 = <<>> THEN [ok |-> FALSE, err |-> "ValueError"]
        ELSE LET s2 == strip(StripFences(s1))
                 m == SearchBrace(s2)
                 s3 == IF (s2 = <<>> \/ s2[1] # "{") /\ m.found THEN m.group ELSE s2
             IN  json_loads(s3)

\* ---------------------------------------------------------------- to_rows
\* Column names: <<k>> is the column k, <<k, WHY>> the column k followed by
\* the suffix " -- why" (the source writes the dash as U+2014).
WHY == " -- why"

ScoreColumn(k) == <<k>>

WhyColumnUnsuffixed(k) == <<k>>

WhyColumn(k) == <<k, WHY>>

\* for k, v in obj["scores"].items(): row[k] = v["score"]; row[k + WHY] = v["justification"]
RECURSIVE RowLoop(_, _, _)
RowLoop(scores, j, row) ==
    IF j > Len(scores.keys) THEN [ok |-> TRUE, row |-> row]
    ELSE LET k == scores.keys[j]
             v == scores.vals[j]
         IN  IF ~IsDict(v) THEN [ok |-> FALSE, err |-> "TypeError"]
             ELSE IF ~DictHas(v, "score") THEN [ok |-> FALSE, err |-> "KeyError"]
             ELSE IF ~DictHas(v, "justification") THEN [ok |-> FALSE, err |-> "KeyError"]
             ELSE RowLoop(scores, j + 1,
                          DictSet(DictSet(row, ScoreColumn(k), DictGet(v, "score")),
                                  WhyColumn(k), DictGet(v, "justification")))

to_rows_twice(obj) ==
    LET r == RowLoop(DictGet(obj, "scores"), 1,
                     DictSet(EmptyDict, <<"district">>, DictGet(obj, "district")))
    IN  IF ~IsDict(obj) THEN [ok |-> FALSE, err |-> "TypeError"]
        ELSE IF ~DictHas(obj, "district") \/ ~DictHas(obj, "scores")
             THEN [ok |-> FALSE, err |-> "KeyError"]
        ELSE IF ~IsDict(DictGet(obj, "scores")) THEN [ok |-> FALSE, err |-> "AttributeError"]
        ELSE IF ~r.ok THEN r
        ELSE [ok |-> TRUE, rows |-> <<r.row, r.row>>]

to_rows(obj) ==
    LET r == RowLoop(DictGet(obj, "scores"), 1,
                     DictSet(EmptyDict, <<"district">>, DictGet(obj, "district")))
    IN  IF ~IsDict(obj) THEN [ok |-> FALSE, err |-> "TypeError"]
        ELSE IF ~DictHas(obj, "district") \/ ~DictHas(obj, "scores")
             THEN [ok |-> FALSE, err |-> "KeyError"]
        ELSE IF ~IsDict(DictGet(obj, "scores")) THEN [ok |-> FALSE, err |-> "AttributeError"]
        ELSE IF ~r.ok THEN r
        ELSE [ok |-> TRUE, rows |-> <<r.row>>]

\* ---------------------------------------------------- district derivation
LOWER == << "a", "b", "c", "d", "e", "f", "g", "h", "i", "j", "k", "l", "m",
            "n", "o", "p", "q", "r", "s", "t", "u", "v", "w", "x", "y", "z" >>

UPPER == << "A", "B", "C", "D", "E", "F", "G", "H", "I", "J", "K", "L", "M",
            "N", "O", "P", "Q", "R", "S", "T", "U", "V", "W", "X", "Y", "Z" >>

IsLower(c) == c \in Range(LOWER)

IsUpper(c) == c \in Range(UPPER)

ToUpper(c) == IF IsLower(c) THEN UPPER[CHOOSE n \in 1..26 : LOWER[n] = c] ELSE c

ToLower(c) == IF IsUpper(c) THEN LOWER[CHOOSE n \in 1..26 : UPPER[n] = c] ELSE c

\* Position of the last occurrence of c in s, 0 when there is none.
LastIndex(s, c) ==
    IF \E n \in 1..Len(s) : s[n] = c
    THEN CHOOSE n \in 1..Len(s) : s[n] = c /\ \A m \in (n + 1)..Len(s) : s[m] # c
    ELSE 0

\* Path(pdf).stem: the final path component without its last suffix; a dot
\* that starts or ends the component does not begin a suffix.
stem(pdf) ==
    LET name == SubSeq(pdf, LastIndex(pdf, "/") + 1, Len(pdf))
        dot == LastIndex(name, ".")
    IN  IF 1 < dot /\ dot < Len(name) THEN SubSeq(name, 1, dot - 1) ELSE name

\* .replace("_", " ")
replace_underscores(s) == [n \in 1..Len(s) |-> IF s[n] = "_" THEN " " ELSE s[n]]

\* str.title(): a cased character is upper-cased when the character before it
\* is not cased, lower-cased when it is.
title(s) ==
    [n \in 1..Len(s) |->
        IF n > 1 /\ (IsLower(s[n - 1]) \/ IsUpper(s[n - 1])) THEN ToLower(s[n]) ELSE ToUpper(s[n])]

\* args.district_names and i < len(args.district_names)
NamesInRange(names, idx) == names.given /\ names.list # <<>> /\ idx < Len(names.list)

PickDistrictNoTitle(names, idx, pdf) ==
    IF NamesInRange(names, idx) THEN names.list[idx + 1]
    ELSE replace_underscores(stem(pdf))

PickDistrict(names, idx, pdf) ==
    IF NamesInRange(names, idx) THEN names.list[idx + 1]
    ELSE title(replace_underscores(stem(pdf)))

\* ------------------------------------------------------------- file names
RawPath(d) == <<d, "_raw.txt">>

JsonPath(d) == <<d, ".json">>

ScoresStem == <<"s", "c", "o", "r", "e", "s">>

ScoresCsv == <<ScoresStem, ".csv">>

ScoresJson == <<ScoresStem, ".json">>

EMPTY_RESPONSE == <<"<EMPTY_RESPONSE>">>

RawTextUnguarded(reply) == reply

\* raw if raw else "<EMPTY_RESPONSE>"
RawText(reply) == IF reply # <<>> THEN reply ELSE EMPTY_RESPONSE

WriteFile(fs, path, content) ==
    [q \in DOMAIN fs \cup {path} |-> IF q = path THEN content ELSE fs[q]]

\* ------------------------------------------------------------------ inputs
\* Paths given with --pdfs.
WestValleyPdf ==
    << "w", "e", "s", "t", "_", "v", "a", "l", "l", "e", "y", "_",
       "p", "l", "a", "n", ".", "p", "d", "f" >>

NestedPdf == << "i", "n", "/", "o", "a", "k", "_", "H", "S", ".", "p", "d", "f" >>

PdfChoices == {WestValleyPdf, NestedPdf}

\* Names given with --district-names; the first equals the stem of the
\* aggregate files.
NameChoices == {ScoresStem, <<"D", "1">>}

\* read_pdf_text(pdf): the page texts joined by blank lines; one document has
\* two pages of text, the other none that can be extracted.
PdfText(pdf) == IF pdf = WestValleyPdf THEN <<"a", "b", "\n", "\n", "c">> ELSE <<>>

\* One category entry of a reply: "c": {"score": n, "justification": "ok"}
CategoryEntry(c, n) ==
    <<c, ":", " ", "{", "score", ":", n, ",", "justification", ":", "ok", "}">>

RECURSIVE CategoryEntries(_)
CategoryEntries(cats) ==
    IF cats = <<>> THEN <<>>
    ELSE IF Len(cats) = 1 THEN CategoryEntry(cats[1], "3")
    ELSE CategoryEntry(cats[1], "3") \o <<",", "\n">> \o CategoryEntries(Tail(cats))

ReplyFor(cats) ==
    <<"{", "district", ":", "Oakville", ",", "scores", ":", "{">>
        \o CategoryEntries(cats) \o <<"}", "}">>

\* Replies call_model can return: empty, prose only, the requested object in
\* a code fence, an object with one category after leaked prose, an object
\* without "scores".
EmptyReply == <<>>

ProseReply == <<"x", " ", "x">>

GoodReply == ReplyFor(CATEGORIES)

FencedReply == <<FENCE_JSON, "\n">> \o GoodReply \o <<"\n", FENCE>>

PartialReply == <<"x", " ">> \o ReplyFor(<<CATEGORIES[6]>>)

MissingScoresReply == <<"{", "district", ":", "Oakville", "}">>

Replies == {EmptyReply, ProseReply, FencedReply, PartialReply, MissingScoresReply}

\* ------------------------------------------------------------------- state
VARIABLES
    pdfs,            \* args.pdfs
    district_names,  \* args.district_names: [given, list]
    pc,              \* position of main
    i,               \* loop index (0-based)
    district,        \* local of the loop body
    user_prompt,     \* local of the loop body
    raw,             \* local of the loop body
    obj,             \* local of the loop body
    all_rows,        \* the accumulator
    files,           \* contents of out_dir, by file name
    stdout,          \* lines printed
    err,             \* the exception that ended main, "" when none
    extracted,       \* indices of the documents read_pdf_text was called on
    requests,        \* what the remote model was asked, and what came back
    chunk_s, chunk_target, chunk_out,      \* a call of chunk_text
    parse_prose, parse_obj, parse_out      \* a call of parse_possible_json

mainvars == <<pdfs, district_names, pc, i, district, user_prompt, raw, obj,
              all_rows, files, stdout, err, extracted, requests>>

chunkvars == <<chunk_s, chunk_target, chunk_out>>

parsevars == <<parse_prose, parse_obj, parse_out>>

vars == <<mainvars, chunkvars, parsevars>>

None == [none |-> TRUE]

NotCalled == [called |-> FALSE]

\* ---------------------------------------------------------- main: the loop
\* The user prompt: USER_PROMPT_TEMPLATE filled with the rubric, the district
\* and the chunk block ("--- CHUNK j ---" headers numbered from 1).
BuildPrompt(d, chunks) ==
    [rubric |-> "rubric_text", district |-> d,
     chunks |-> [j \in 1..Len(chunks) |-> [header |-> j, text |-> chunks[j]]]]

\* The position after the body of iteration idx: the next iteration or the
\* code after the loop.
AfterIteration(idx) == IF idx + 1 < Len(pdfs) THEN "prepare" ELSE "write_csv"

MainIdle ==
    /\ pdfs = <<>>
    /\ district_names = [given |-> FALSE, list |-> <<>>]
    /\ pc = "idle"
    /\ i = 0
    /\ district = <<>>
    /\ user_prompt = None
    /\ raw = <<>>
    /\ obj = None
    /\ all_rows = <<>>
    /\ files = <<>>
    /\ stdout = <<>>
    /\ err = ""
    /\ extracted = <<>>
    /\ requests = <<>>

ChunkIdle == chunk_s = <<>> /\ chunk_target = 0 /\ chunk_out = NotCalled

ParseIdle == parse_prose = <<>> /\ parse_obj = None /\ parse_out = NotCalled

Init ==
    /\ pdfs \in SeqsUpTo(PdfChoices, MaxDocs) \ {<<>>}
    /\ district_names \in
           {[given |-> FALSE, list |-> <<>>]} \cup
           {[given |-> TRUE, list |-> l] : l \in SeqsUpTo(NameChoices, MaxNames)}
    /\ pc = "prepare"
    /\ i = 0
    /\ district = <<>>
    /\ user_prompt = None
    /\ raw = <<>>
    /\ obj = None
    /\ all_rows = <<>>
    /\ files = <<>>
    /\ stdout = <<>>
    /\ err = ""
    /\ extracted = <<>>
    /\ requests = <<>>
    /\ ChunkIdle
    /\ ParseIdle

\* lines 140-156: pick the district, read and chunk the text, build the prompt
Prepare ==
    /\ pc = "prepare"
    /\ district' = PickDistrict(district_names, i, pdfs[i + 1])
    /\ user_prompt' = BuildPrompt(district', chunk_text(PdfText(pdfs[i + 1]), 1200))
    /\ extracted' = Append(extracted, i)
    /\ pc' = "call"
    /\ UNCHANGED <<pdfs, district_names, i, raw, obj, all_rows, files, stdout, err, requests>>
    /\ UNCHANGED <<chunkvars, parsevars>>

\* line 147: PdfReader cannot open the document; the exception leaves main
PrepareFail ==
    /\ pc = "prepare"
    /\ district' = PickDistrict(district_names, i, pdfs[i + 1])
    /\ extracted' = Append(extracted, i)
    /\ err' = "PdfReadError"
    /\ pc' = "failed"
    /\ UNCHANGED <<pdfs, district_names, i, user_prompt, raw, obj, all_rows, files, stdout, requests>>
    /\ UNCHANGED <<chunkvars, parsevars>>

\* line 159: the model call returns a reply
CallModel ==
    /\ pc = "call"
    /\ \E reply \in Replies :
        /\ raw' = reply
        /\ requests' = Append(requests, [i |-> i, prompt |-> user_prompt, ok |-> TRUE, reply |-> reply])
    /\ pc' = "write_raw"
    /\ UNCHANGED <<pdfs, district_names, i, district, user_prompt, obj, all_rows, files, stdout, err, extracted>>
    /\ UNCHANGED <<chunkvars, parsevars>>

CallModelFailSkip ==
    /\ pc = "call"
    /\ requests' = Append(requests, [i |-> i, prompt |-> user_prompt, ok |-> FALSE, reply |-> <<>>])
    /\ i' = i + 1
    /\ pc' = AfterIteration(i)
    /\ UNCHANGED <<pdfs, district_names, district, user_prompt, raw, obj, all_rows, files, stdout, err, extracted>>
    /\ UNCHANGED <<chunkvars, parsevars>>

\* line 159: the model call raises (transport or auth error); nothing catches it
CallModelFail ==
    /\ pc = "call"
    /\ requests' = Append(requests, [i |-> i, prompt |-> user_prompt, ok |-> FALSE, reply |-> <<>>])
    /\ err' = "APIError"
    /\ pc' = "failed"
    /\ UNCHANGED <<pdfs, district_names, i, district, user_prompt, raw, obj, all_rows, files, stdout, extracted>>
    /\ UNCHANGED <<chunkvars, parsevars>>

\* lines 162-163
WriteRaw ==
    /\ pc = "write_raw"
    /\ files' = WriteFile(files, RawPath(district), [kind |-> "raw", text |-> RawText(raw)])
    /\ pc' = "parse"
    /\ UNCHANGED <<pdfs, district_names, i, district, user_prompt, raw, obj, all_rows, stdout, err, extracted, requests>>
    /\ UNCHANGED <<chunkvars, parsevars>>

\* line 167, no exception
ParseOk ==
    /\ pc = "parse"
    /\ parse_possible_json(raw).ok
    /\ obj' = parse_possible_json(raw).val
    /\ pc' = "write_json"
    /\ UNCHANGED <<pdfs, district_names, i, district, user_prompt, raw, all_rows, files, stdout, err, extracted, requests>>
    /\ UNCHANGED <<chunkvars, parsevars>>

ErrorLine(d, e) == [tag |-> "ERROR", district |-> d, raw_path |-> RawPath(d), details |-> e]

ParseFailContinue ==
    /\ pc = "parse"
    /\ ~parse_possible_json(raw).ok
    /\ stdout' = Append(stdout, ErrorLine(district, parse_possible_json(raw).err))
    /\ i' = i + 1
    /\ pc' = AfterIteration(i)
    /\ UNCHANGED <<pdfs, district_names, district, user_prompt, raw, obj, all_rows, files, err, extracted, requests>>
    /\ UNCHANGED <<chunkvars, parsevars>>

ParseFailSilent ==
    /\ pc = "parse"
    /\ ~parse_possible_json(raw).ok
    /\ err' = parse_possible_json(raw).err
    /\ pc' = "failed"
    /\ UNCHANGED <<pdfs, district_names, i, district, user_prompt, raw, obj, all_rows, files, stdout, extracted, requests>>
    /\ UNCHANGED <<chunkvars, parsevars>>

\* lines 168-172: the parse raised; print the diagnostic and re-raise
ParseFail ==
    /\ pc = "parse"
    /\ ~parse_possible_json(raw).ok
    /\ stdout' = Append(stdout, ErrorLine(district, parse_possible_json(raw).err))
    /\ err' = parse_possible_json(raw).err
    /\ pc' = "failed"
    /\ UNCHANGED <<pdfs, district_names, i, district, user_prompt, raw, obj, all_rows, files, extracted, requests>>
    /\ UNCHANGED <<chunkvars, parsevars>>

\* lines 175-178
WriteJson ==
    /\ pc = "write_json"
    /\ files' = WriteFile(files, JsonPath(district), [kind |-> "json", obj |-> obj])
    /\ pc' = "to_rows"
    /\ UNCHANGED <<pdfs, district_names, i, district, user_prompt, raw, obj, all_rows, stdout, err, extracted, requests>>
    /\ UNCHANGED <<chunkvars, parsevars>>

\* line 179, no exception; then the loop advances
AppendRows ==
    /\ pc = "to_rows"
    /\ to_rows(obj).ok
    /\ all_rows' = all_rows \o to_rows(obj).rows
    /\ i' = i + 1
    /\ pc' = AfterIteration(i)
    /\ UNCHANGED <<pdfs, district_names, district, user_prompt, raw, obj, files, stdout, err, extracted, requests>>
    /\ UNCHANGED <<chunkvars, parsevars>>

\* line 179: to_rows raises; nothing catches it
ToRowsFail ==
    /\ pc = "to_rows"
    /\ ~to_rows(obj).ok
    /\ err' = to_rows(obj).err
    /\ pc' = "failed"
    /\ UNCHANGED <<pdfs, district_names, i, district, user_prompt, raw, obj, all_rows, files, stdout, extracted, requests>>
    /\ UNCHANGED <<chunkvars, parsevars>>

\* lines 183-184
WriteCsv ==
    /\ pc = "write_csv"
    /\ files' = WriteFile(files, ScoresCsv, [kind |-> "csv", rows |-> all_rows])
    /\ pc' = "write_scores_json"
    /\ UNCHANGED <<pdfs, district_names, i, district, user_prompt, raw, obj, all_rows, stdout, err, extracted, requests>>
    /\ UNCHANGED <<chunkvars, parsevars>>

\* line 185
WriteScoresJson ==
    /\ pc = "write_scores_json"
    /\ files' = WriteFile(files, ScoresJson, [kind |-> "json_array", rows |-> all_rows])
    /\ pc' = "print_done"
    /\ UNCHANGED <<pdfs, district_names, i, district, user_prompt, raw, obj, all_rows, stdout, err, extracted, requests>>
    /\ UNCHANGED <<chunkvars, parsevars>>

\* line 186
PrintDone ==
    /\ pc = "print_done"
    /\ stdout' = Append(stdout, [tag |-> "Done", path |-> ScoresCsv])
    /\ pc' = "done"
    /\ UNCHANGED <<pdfs, district_names, i, district, user_prompt, raw, obj, all_rows, files, err, extracted, requests>>
    /\ UNCHANGED <<chunkvars, parsevars>>

Next ==
    \/ Prepare
    \/ PrepareFail
    \/ CallModel
    \/ CallModelFail
    \/ WriteRaw
    \/ ParseOk
    \/ ParseFail
    \/ WriteJson
    \/ AppendRows
    \/ ToRowsFail
    \/ WriteCsv
    \/ WriteScoresJson
    \/ PrintDone

Spec == Init /\ [][Next]_vars

\* ------------------------------------------------- chunk_text on its own
TargetChoices == (0 - 1)..MaxTarget

InitChunk ==
    /\ chunk_s \in SeqsUpTo(TextChars, MaxTextLen)
    /\ chunk_target \in TargetChoices
    /\ chunk_out = NotCalled
    /\ MainIdle
    /\ ParseIdle

CallChunkText ==
    /\ ~chunk_out.called
    /\ chunk_out' = [called |-> TRUE, chunks |-> chunk_text(chunk_s, chunk_target)]
    /\ UNCHANGED <<chunk_s, chunk_target, mainvars, parsevars>>

NextChunk == CallChunkText

SpecChunk == InitChunk /\ [][NextChunk]_vars

\* ---------------------------------------- parse_possible_json on its own
\* Tokens leaked prose is made of.
ProseTokens == {"x", " ", "{", "}", FENCE_JSON, FENCE}

JsonAtoms == {[text |-> <<"1">>, val |-> [num |-> 1]], [text |-> <<"ok">>, val |-> [str |-> "ok"]]}

\* Well-formed JSON objects nested at most d deep, each with the value it
\* denotes: {}, { }, {"k": v} and {"k": v, "k": atom}.
RECURSIVE JsonObjects(_)
JsonObjects(d) ==
    LET inner == IF d <= 1 THEN JsonAtoms ELSE JsonAtoms \cup JsonObjects(d - 1)
    IN  {[text |-> <<"{", "}">>, val |-> EmptyDict],
         [text |-> <<"{", " ", "}">>, val |-> EmptyDict]}
        \cup {[text |-> <<"{", "k", ":">> \o v.text \o <<"}">>,
               val |-> [keys |-> <<"k">>, vals |-> <<v.val>>]] : v \in inner}
        \cup {[text |-> <<"{", "k", ":">> \o v.text \o <<",", " ", "k", ":">> \o a.text \o <<"}">>,
               val |-> [keys |-> <<"k">>, vals |-> <<a.val>>]] : v \in inner, a \in JsonAtoms}

InitParse ==
    /\ parse_prose \in SeqsUpTo(ProseTokens, MaxProse) \ {<<>>}
    /\ parse_obj \in JsonObjects(ObjDepth)
    /\ parse_out = NotCalled
    /\ MainIdle
    /\ ChunkIdle

CallParse ==
    /\ ~parse_out.called
    /\ parse_out' = [called |-> TRUE, result |-> parse_possible_json(parse_prose \o parse_obj.text)]
    /\ UNCHANGED <<parse_prose, parse_obj, mainvars, chunkvars>>

NextParse == CallParse

SpecParse == InitParse /\ [][NextParse]_vars

\* ================================================================= claims

\* ---- chunk_text
HasWord(s) == \E n \in 1..Len(s) : s[n] \notin Whitespace

WordsOfChunks(chunks) == Flatten([n \in 1..Len(chunks) |-> split(chunks[n])])

\* C5 as stated: every non-empty text gives at least one chunk, and the words
\* of the chunks, in order, are the words of the text.
C5_Original ==
    (chunk_out.called /\ chunk_s # <<>>) =>
        /\ Len(chunk_out.chunks) >= 1
        /\ WordsOfChunks(chunk_out.chunks) = split(chunk_s)

\* C5 amended: every text with at least one non-whitespace character gives at
\* least one chunk, and for every text the words of the chunks, in order, are
\* exactly the whitespace-split words of the text.
C5_WordsPreserved ==
    chunk_out.called =>
        /\ HasWord(chunk_s) => Len(chunk_out.chunks) >= 1
        /\ WordsOfChunks(chunk_out.chunks) = split(chunk_s)

C5_Witness ==
    /\ chunk_out.called
    /\ HasWord(chunk_s)
    /\ Len(chunk_out.chunks) >= 2
    /\ Len(split(chunk_s)) > Len(chunk_out.chunks)

\* C6 as stated: every chunk but the last is at least target_tokens * 4
\* characters long.
C6_Original ==
    chunk_out.called =>
        \A n \in 1..(Len(chunk_out.chunks) - 1) : Len(chunk_out.chunks[n]) >= chunk_target * 4

\* C6 amended: every chunk but the last is at least target_tokens * 4 - 1
\* characters long (the budget counts one separator per word, the chunk has
\* one separator fewer than words).
C6_ChunkLength ==
    chunk_out.called =>
        \A n \in 1..(Len(chunk_out.chunks) - 1) : Len(chunk_out.chunks[n]) >= chunk_target * 4 - 1

C6_Witness ==
    /\ chunk_out.called
    /\ chunk_target >= 1
    /\ Len(chunk_out.chunks) >= 2
    /\ Len(chunk_out.chunks[1]) = chunk_target * 4 - 1

\* ---- parse_possible_json
\* C7 as stated: leading prose followed by a well-formed object at the end of
\* the string parses to that object, whatever the prose contains.
C7_Original ==
    parse_out.called => parse_out.result = [ok |-> TRUE, val |-> parse_obj.val]

\* C7 amended: leading prose that contains no opening brace, followed by a
\* well-formed object at the end of the string, parses to that object.
C7_TrailingObject ==
    (parse_out.called /\ "{" \notin Range(parse_prose)) =>
        parse_out.result = [ok |-> TRUE, val |-> parse_obj.val]

C7_Witness ==
    /\ parse_out.called
    /\ "{" \notin Range(parse_prose)
    /\ "x" \in Range(parse_prose)
    /\ parse_obj.val # EmptyDict
    /\ IsDict(parse_obj.val.vals[1])
    /\ parse_out.result.ok

\* ---- main
\* The district the document at index k resolves to, and the request made for it.
DistrictOf(k) == PickDistrict(district_names, k, pdfs[k + 1])

ParsedReply(n) == parse_possible_json(requests[n].reply)

\* The request n got no reply, or a reply that does not parse.
RequestFailed(n) == ~requests[n].ok \/ ~ParsedReply(n).ok

InBody == pc \in {"call", "write_raw", "parse", "write_json", "to_rows", "failed"}

ParseErrors == {"ValueError", "JSONDecodeError"}

RowErrors == {"KeyError", "TypeError", "AttributeError"}

\* C1: from the moment the parse of a reply is about to be attempted, and
\* whatever its outcome, the raw file of the document holds the reply, or the
\* placeholder when the reply is empty; the raw files of the documents
\* processed before it are still there.
C1_RawBeforeParse ==
    /\ (pc \in {"parse", "write_json", "to_rows"} \/ (pc = "failed" /\ err \in ParseErrors \cup RowErrors)) =>
          /\ RawPath(district) \in DOMAIN files
          /\ files[RawPath(district)] =
                 [kind |-> "raw", text |-> IF raw = <<>> THEN EMPTY_RESPONSE ELSE raw]
    /\ \A k \in 0..(i - 1) :
          /\ RawPath(DistrictOf(k)) \in DOMAIN files
          /\ files[RawPath(DistrictOf(k))].kind = "raw"

C1_Witness ==
    /\ pc = "failed"
    /\ err = "ValueError"
    /\ i >= 1
    /\ raw = <<>>
    /\ files[RawPath(district)].text = EMPTY_RESPONSE

\* An aggregate file has been written by the code after the loop.
CsvWritten == ScoresCsv \in DOMAIN files

ScoresJsonWritten == ScoresJson \in DOMAIN files /\ files[ScoresJson].kind = "json_array"

\* Every document was sent to the model once, in order, and its reply parsed
\* and projected without error.
AllProcessed ==
    /\ i = Len(pdfs)
    /\ err = ""
    /\ Len(requests) = Len(pdfs)
    /\ \A n \in 1..Len(requests) :
          /\ requests[n].i = n - 1
          /\ requests[n].ok
          /\ ParsedReply(n).ok
          /\ to_rows(ParsedReply(n).val).ok

\* C2: the aggregate files are written only after every document has been
\* processed without error, and never in a run in which a document failed; a
\* file named scores.json that exists earlier is the per-document JSON file of
\* a document whose district is "scores".
C2_AggregateOnlyAfterAll ==
    /\ (CsvWritten \/ ScoresJsonWritten) => AllProcessed
    /\ (err # "" \/ \E n \in 1..Len(requests) : RequestFailed(n)) => ~(CsvWritten \/ ScoresJsonWritten)
    /\ (ScoresJson \in DOMAIN files /\ ~AllProcessed) =>
          /\ files[ScoresJson].kind = "json"
          /\ \E k \in 0..(Len(extracted) - 1) : DistrictOf(k) = ScoresStem

C2_Witness ==
    /\ pc = "done"
    /\ Len(pdfs) >= 2
    /\ CsvWritten
    /\ ScoresJsonWritten

\* The last document with index at most upto that resolves to district d.
LastWith(d, upto) ==
    CHOOSE k \in 0..upto : DistrictOf(k) = d /\ \A m \in (k + 1)..upto : DistrictOf(m) # d

\* C3 (state part): documents are read and sent once each, in input order; a
\* failed model call or parse is the last thing that was ever sent (no retry,
\* no later document); after such a failure nothing can happen any more, only
\* files of documents up to the failing one exist, and every earlier document
\* still has its raw and JSON file, holding what was last written to them.
C3_State ==
    /\ \A n \in 1..Len(extracted) : extracted[n] = n - 1
    /\ \A n \in 1..Len(requests) : requests[n].i = n - 1
    /\ \A n \in 1..Len(requests) :
          RequestFailed(n) => (Len(requests) = n /\ Len(extracted) = n /\ i = n - 1)
    /\ (pc = "failed" /\ err \in ParseErrors \cup {"APIError"}) =>
          /\ ~ENABLED Next
          /\ DOMAIN files \subseteq
                 {RawPath(DistrictOf(k)) : k \in 0..i} \cup {JsonPath(DistrictOf(k)) : k \in 0..(i - 1)}
          /\ \A k \in 0..(i - 1) :
                /\ JsonPath(DistrictOf(k)) \in DOMAIN files
                /\ files[JsonPath(DistrictOf(k))] =
                       [kind |-> "json", obj |-> ParsedReply(LastWith(DistrictOf(k), i - 1) + 1).val]
                /\ RawPath(DistrictOf(k)) \in DOMAIN files
                /\ files[RawPath(DistrictOf(k))] =
                       [kind |-> "raw",
                        text |-> RawText(requests[LastWith(DistrictOf(k),
                                     IF requests[i + 1].ok THEN i ELSE i - 1) + 1].reply)]

Diagnosed ==
    /\ \E n \in 1..Len(stdout) :
          /\ stdout[n].tag = "ERROR"
          /\ stdout[n].district = district
          /\ stdout[n].raw_path = RawPath(district)
    /\ RawPath(district) \in DOMAIN files

\* C4 as stated: every failure of the model call, of the parse or of the row
\* projection is preceded by the diagnostic.
C4_Original ==
    (pc = "failed" /\ err \in {"APIError"} \cup ParseErrors \cup RowErrors) => Diagnosed

\* C4 amended: a failure of the parse is preceded by the diagnostic, with the
\* raw file of the document on disk holding its reply; a failure of the model
\* call or of the row projection ends main with nothing printed, and after a
\* failure of the model call a raw file with the document's name can only be
\* that of an earlier document with the same district.
C4_ParseDiagnosed ==
    /\ (pc = "failed" /\ err \in ParseErrors) =>
          /\ Diagnosed
          /\ files[RawPath(district)] = [kind |-> "raw", text |-> RawText(raw)]
    /\ (pc = "failed" /\ err \in {"APIError"} \cup RowErrors) => stdout = <<>>
    /\ (pc = "failed" /\ err = "APIError" /\ RawPath(district) \in DOMAIN files) =>
          \E k \in 0..(i - 1) : DistrictOf(k) = district

C4_Witness ==
    /\ pc = "failed"
    /\ err = "JSONDecodeError"
    /\ i >= 1
    /\ Diagnosed

\* The 15 columns fixed by the category enumeration.
FixedColumns ==
    {<<"district">>} \cup {<<c>> : c \in Range(CATEGORIES)} \cup {<<c, WHY>> : c \in Range(CATEGORIES)}

Columns(row) == Range(row.keys)

\* C8 as stated: every accumulated Row has the 15 fixed columns.
C8_Original ==
    \A n \in 1..Len(all_rows) : Columns(all_rows[n]) = FixedColumns

\* C8 amended: the Row of a document has the column district and, for every
\* key k of the scores mapping of that document's parsed reply, the columns k
\* and k + WHY; these are the 15 fixed columns when the keys are the seven
\* categories.
C8_ColumnsFollowReply ==
    \A n \in 1..Len(all_rows) :
        LET keys == Range(DictGet(ParsedReply(n).val, "scores").keys)
        IN  /\ Columns(all_rows[n]) =
                   {<<"district">>} \cup {<<k>> : k \in keys} \cup {<<k, WHY>> : k \in keys}
            /\ Cardinality(Columns(all_rows[n])) = 1 + 2 * Cardinality(keys)
            /\ keys = Range(CATEGORIES) => Columns(all_rows[n]) = FixedColumns

C8_Witness ==
    /\ Len(all_rows) >= 2
    /\ Columns(all_rows[1]) = FixedColumns
    /\ Cardinality(Columns(all_rows[2])) = 3

\* C9 (state part): the accumulator holds one Row per completed document, in
\* input order, and the aggregate files hold the accumulator of a complete run.
C9_State ==
    /\ pc # "idle" => Len(all_rows) = i
    /\ \A n \in 1..Len(all_rows) :
          /\ requests[n].i = n - 1
          /\ all_rows[n] = to_rows(ParsedReply(n).val).rows[1]
    /\ CsvWritten =>
          (files[ScoresCsv].rows = all_rows /\ Len(files[ScoresCsv].rows) = Len(pdfs))
    /\ ScoresJsonWritten =>
          (files[ScoresJson].rows = all_rows /\ Len(files[ScoresJson].rows) = Len(pdfs))

\* C9: the state part, and a Row is appended only when the JSON file of its
\* document is on disk.
C9_OneRowPerDocument ==
    /\ []C9_State
    /\ [][all_rows' # all_rows =>
            /\ JsonPath(district) \in DOMAIN files
            /\ files[JsonPath(district)] = [kind |-> "json", obj |-> obj]
            /\ Len(all_rows') = Len(all_rows) + 1]_vars

C9_Witness ==
    /\ ScoresJsonWritten
    /\ Len(pdfs) >= 2
    /\ all_rows[1] # all_rows[2]

\* The names the spec gives for the two documents.
WestValleyName ==
    << "W", "e", "s", "t", " ", "V", "a", "l", "l", "e", "y", " ", "P", "l", "a", "n" >>

DerivedName(pdf) == IF pdf = WestValleyPdf THEN WestValleyName ELSE <<"O", "a", "k", " ", "H", "s">>

ExpectedDistrict(k) ==
    IF district_names.given /\ k + 1 <= Len(district_names.list)
    THEN district_names.list[k + 1]
    ELSE DerivedName(pdfs[k + 1])

\* C10: the district of the document at index k is the k-th supplied name
\* when there is one, otherwise the name derived from the file name; the
\* prompt and the output files carry that name.
C10_DistrictName ==
    /\ InBody =>
          /\ district = ExpectedDistrict(i)
          /\ pc # "failed" => user_prompt.district = ExpectedDistrict(i)
    /\ \A n \in 1..Len(requests) : requests[n].prompt.district = ExpectedDistrict(n - 1)
    /\ DOMAIN files \subseteq
           {RawPath(ExpectedDistrict(k)) : k \in 0..(Len(extracted) - 1)}
           \cup {JsonPath(ExpectedDistrict(k)) : k \in 0..(Len(extracted) - 1)}
           \cup {ScoresCsv, ScoresJson}

C10_Witness ==
    /\ pc = "parse"
    /\ i = 1
    /\ district_names.given
    /\ Len(district_names.list) = 1
    /\ district = WestValleyName
    /\ RawPath(WestValleyName) \in DOMAIN files

====
